---- MODULE Spec2Model ----
(***************************************************************************)
(* A model of waituntil (src/waituntil.go): the time-specification parser  *)
(* (parseHHMM, parseTime) and the wait loop of main.                       *)
(*                                                                         *)
(* Time.  Go measures time.Duration in nanoseconds; the model measures it  *)
(* in ticks, TicksPerSecond ticks to the second, and keeps the ratios of   *)
(* time.Second, time.Minute and time.Hour.  In the wait loop a time.Time   *)
(* is an integer number of ticks (only differences and comparisons are     *)
(* taken there); in the parser a time.Time is a record of calendar fields  *)
(* in the local zone, which is modelled as a zone with a fixed offset.     *)
(***************************************************************************)
EXTENDS Integers, Sequences, FiniteSets, TLC

VARIABLES
    pc,         \* position of main: "parse", "parsed", "top", "sleeping", "done"
    clock,      \* the wall clock, what time.Now() would return (wait loop, ticks)
    tgt,        \* the target instant main waits for (ticks)
    now,        \* the loop's latest sample of the clock
    dur,        \* the loop's variable dur
    remaining,  \* the value tgt.Sub(now) gave in the latest iteration that took it
    sleeps,     \* number of calls of time.Sleep so far
    jumps,      \* number of sleeps during which the clock was disturbed
    jump,       \* by how much the clock was off across the latest sleep
    given,      \* the fields the time argument was written from
    tspec,      \* the time argument, a sequence of characters
    pnow,       \* the clock at the time of parsing (calendar fields)
    result,     \* the time.Time parseTime returned
    perr        \* whether parseTime returned an error

vars == <<pc, clock, tgt, now, dur, remaining, sleeps, jumps, jump,
          given, tspec, pnow, result, perr>>

waitVars == <<pc, clock, tgt, now, dur, remaining, sleeps, jumps, jump>>
parseVars == <<given, tspec, pnow, result, perr>>

(***************************************************************************)
(* Bounds of the model.                                                    *)
(***************************************************************************)
TicksPerSecond == 2
MaxJumps == 2
MaxSleeps == 100

(***************************************************************************)
(* Durations.                                                              *)
(***************************************************************************)
Second == TicksPerSecond
Minute == 60 * Second
Hour == 60 * Minute

(***************************************************************************)
(* The wait loop of main.                                                  *)
(***************************************************************************)

\* now.After(tgt)
After(t, u) == t > u

\* tgt.Sub(now)
Sub(t, u) == t - u

\* "we have a one-second granularity; if we're closer than that, we're done"
CloseEnoughMinute(d) == d < Minute
CloseEnoughNegative(d) == d < 0
CloseEnoughHalf(d) == 2 * d < Second
CloseEnoughOrEqual(d) == d <= Second
CloseEnough(d) == d < Second

\* The switch that picks how long to sleep.
SleepDurHalfAlways(d) ==
    IF d > 2 * Hour THEN Hour ELSE d \div 2
SleepDurNoHourCap(d) ==
    IF d > Minute THEN d \div 2 ELSE d
SleepDur(d) ==
    CASE d > 2 * Hour -> Hour
      [] d <= 2 * Hour /\ d > Minute -> d \div 2
      [] OTHER -> d

\* How long time.Sleep(d) sleeps: a negative or zero duration makes it
\* return immediately.
Slept(d) == IF d > 0 THEN d ELSE 0

\* The count of sleeps, which stops counting at MaxSleeps (no run of the
\* specifications below gets that far).
Count(n) == IF n < MaxSleeps THEN n + 1 ELSE n

\* One pass of the loop body up to the call of time.Sleep, or to the return.
IterateStale ==
    /\ pc = "top"
    /\ now' = clock
    /\ LET d == IF sleeps = 0 THEN Sub(tgt, clock) ELSE remaining - Slept(dur)
       IN  /\ remaining' = d
           /\ IF CloseEnough(d)
              THEN pc' = "done" /\ dur' = d
              ELSE pc' = "sleeping" /\ dur' = SleepDur(d)
    /\ sleeps' = IF pc' = "sleeping" THEN Count(sleeps) ELSE sleeps
    /\ UNCHANGED <<clock, tgt, jumps, jump>>
    /\ UNCHANGED parseVars
Iterate ==
    /\ pc = "top"
    /\ now' = clock
    /\ IF After(clock, tgt)
       THEN /\ pc' = "done"
            /\ UNCHANGED <<dur, remaining>>
       ELSE /\ remaining' = Sub(tgt, clock)
            /\ IF CloseEnough(Sub(tgt, clock))
               THEN /\ pc' = "done"
                    /\ dur' = Sub(tgt, clock)
               ELSE /\ pc' = "sleeping"
                    /\ dur' = SleepDur(Sub(tgt, clock))
    /\ sleeps' = IF pc' = "sleeping" THEN Count(sleeps) ELSE sleeps
    /\ UNCHANGED <<clock, tgt, jumps, jump>>
    /\ UNCHANGED parseVars

\* time.Sleep(dur) returns; meanwhile the clock moved on by the time slept,
\* and was off by j on top of that.
Wake(j) ==
    /\ pc = "sleeping"
    /\ clock' = clock + Slept(dur) + j
    /\ jump' = j
    /\ jumps' = IF j = 0 THEN jumps ELSE jumps + 1
    /\ pc' = "top"
    /\ UNCHANGED <<tgt, now, dur, remaining, sleeps>>
    /\ UNCHANGED parseVars

\* The clock read when the wait loop starts.
Origin == 4 * Hour

\* How far the target is from the first clock reading in the runs explored.
Waits ==
    {0 - Hour, 0 - 1, 0, 1, Second, Second + 1, Minute - 1, Minute, Minute + 1,
     2 * Minute + 1, 90 * Minute, 2 * Hour, 2 * Hour + 1, 5 * Hour, 26 * Hour}

\* By how much the clock may be off across one sleep.
Jumps == {0 - 3 * Hour, 0 - 1, 1, 45 * Minute}

\* By how much a sleep may last longer than asked.
Lates == {0, 1, 45 * Minute}

NoInput == [form |-> "none"]
NoTime == [year |-> 0, month |-> 1, day |-> 1, hour |-> 0, min |-> 0, sec |-> 0, nsec |-> 0]

ParseIdle ==
    /\ given = NoInput
    /\ tspec = <<>>
    /\ pnow = NoTime
    /\ result = NoTime
    /\ perr = FALSE

WaitInit(W) ==
    /\ pc = "top"
    /\ clock = Origin
    /\ tgt \in {Origin + w : w \in W}
    /\ now = Origin
    /\ dur = 0
    /\ remaining = 0
    /\ sleeps = 0
    /\ jumps = 0
    /\ jump = 0

\* The wait loop under a clock that may be set forward or backward.
Init == WaitInit(Waits) /\ ParseIdle

WakeAny == \E j \in Jumps \cup {0} : (j # 0 => jumps < MaxJumps) /\ Wake(j)

Next == Iterate \/ WakeAny

Spec == Init /\ [][Next]_vars

\* The wait loop under a clock that is never set back: across a sleep of dur
\* it advances by dur or more.  The loop is the only thread of the program, so
\* it always gets to take its next step.
WakeLate == \E j \in Lates : Wake(j)

NextAdvance == Iterate \/ WakeLate

AdvanceSpec == Init /\ [][NextAdvance]_vars /\ WF_vars(NextAdvance)

\* The wait loop under a stable clock: across a sleep of dur it advances by
\* exactly dur.
StableWaits ==
    {k * (47 * Minute + 1) : k \in 0..15}
        \cup {Second, Minute, 2 * Hour, 4 * Hour, 10 * Hour, 24 * Hour}

InitStable == WaitInit(StableWaits) /\ ParseIdle

WakeExact == Wake(0)

NextStable == Iterate \/ WakeExact

StableSpec == InitStable /\ [][NextStable]_vars

(***************************************************************************)
(* Characters and numbers.  A string is a sequence of one-character        *)
(* strings.                                                                *)
(***************************************************************************)
Digits == <<"0", "1", "2", "3", "4", "5", "6", "7", "8", "9">>

IsDigit(c) == \E i \in 1..10 : Digits[i] = c

DigitVal(c) == (CHOOSE i \in 1..10 : Digits[i] = c) - 1

\* Whether s has a digit at (0-based) position i: isDigit of package time.
IsDigitAt(s, i) == Len(s) > i /\ IsDigit(s[i + 1])

Drop(s, n) == SubSeq(s, n + 1, Len(s))

RECURSIVE SkipSpace(_)
SkipSpace(s) == IF s # <<>> /\ Head(s) = " " THEN SkipSpace(Tail(s)) ELSE s

\* The longest run of digits s starts with, as <<value, number of digits>>.
RECURSIVE ScanDigits(_, _, _)
ScanDigits(s, val, n) ==
    IF s # <<>> /\ IsDigit(Head(s))
    THEN ScanDigits(Tail(s), 10 * val + DigitVal(Head(s)), n + 1)
    ELSE <<val, n>>

\* The verb %d of fmt.Sscanf: leading spaces are skipped, then an optional
\* sign and at least one digit are read.
ScanInt(s) ==
    LET s1 == SkipSpace(s)
        signed == s1 # <<>> /\ Head(s1) \in {"+", "-"}
        s2 == IF signed THEN Tail(s1) ELSE s1
        num == ScanDigits(s2, 0, 0)
    IN  IF s1 = <<>> \/ num[2] = 0
        THEN [ok |-> FALSE, val |-> 0, rest |-> s]
        ELSE [ok |-> TRUE,
              val |-> IF signed /\ Head(s1) = "-" THEN 0 - num[1] ELSE num[1],
              rest |-> Drop(s2, num[2])]

\* fmt.Sscanf(input, format, ...) for a format of %d verbs and literal
\* characters: the values scanned, or an error.  Input left over after the
\* format is used up is ignored.
RECURSIVE Sscanf(_, _, _)
Sscanf(input, format, vals) ==
    IF format = <<>> THEN [ok |-> TRUE, vals |-> vals]
    ELSE IF Head(format) = "%d"
    THEN LET r == ScanInt(input)
         IN  IF r.ok THEN Sscanf(r.rest, Tail(format), Append(vals, r.val))
             ELSE [ok |-> FALSE, vals |-> vals]
    ELSE IF input # <<>> /\ Head(input) = Head(format)
    THEN Sscanf(Tail(input), Tail(format), vals)
    ELSE [ok |-> FALSE, vals |-> vals]

(***************************************************************************)
(* Calendar arithmetic of package time, in a zone with a fixed offset.     *)
(* A time.Time is a record of its year, month, day, hour, min, sec and     *)
(* nsec, the last in ticks.                                                *)
(***************************************************************************)
IsLeap(y) == y % 4 = 0 /\ (y % 100 # 0 \/ y % 400 = 0)

DaysIn(m, y) ==
    IF m = 2 THEN (IF IsLeap(y) THEN 29 ELSE 28)
    ELSE IF m \in {4, 6, 9, 11} THEN 30 ELSE 31

\* Days of year y before its month m (m in 1..13).
RECURSIVE DaysBeforeMonth(_, _)
DaysBeforeMonth(y, m) ==
    IF m <= 1 THEN 0 ELSE DaysBeforeMonth(y, m - 1) + DaysIn(m - 1, y)

\* Days from the first day of year 0 to the first day of year y (y >= 0).
DaysBeforeYear(y) ==
    IF y = 0 THEN 0
    ELSE 365 * y + ((y - 1) \div 4) - ((y - 1) \div 100) + ((y - 1) \div 400) + 1

SecondsPerDay == 24 * 60 * 60

\* time.Date: the time of the given fields, which may be out of range and
\* are normalised.
Date(year, month, day, hour, min, sec, nsec) ==
    LET y == year + ((month - 1) \div 12)
        m == ((month - 1) % 12) + 1
        secs == hour * 60 * 60 + min * 60 + sec + (nsec \div Second)
        n == DaysBeforeYear(y) + DaysBeforeMonth(y, m) + (day - 1)
                + (secs \div SecondsPerDay)
        tod == secs % SecondsPerDay
        ry == CHOOSE c \in (n \div 366)..((n \div 365) + 1) :
                  DaysBeforeYear(c) <= n /\ n < DaysBeforeYear(c + 1)
        yday == n - DaysBeforeYear(ry)
        rm == CHOOSE c \in 1..12 :
                  DaysBeforeMonth(ry, c) <= yday /\ yday < DaysBeforeMonth(ry, c + 1)
    IN  [year |-> ry, month |-> rm, day |-> yday - DaysBeforeMonth(ry, rm) + 1,
         hour |-> tod \div (60 * 60), min |-> (tod \div 60) % 60, sec |-> tod % 60,
         nsec |-> nsec % Second]

\* t.Before(u)
Before(t, u) ==
    LET kt == <<t.year, t.month, t.day, t.hour, t.min, t.sec, t.nsec>>
        ku == <<u.year, u.month, u.day, u.hour, u.min, u.sec, u.nsec>>
    IN  \E i \in 1..7 : kt[i] < ku[i] /\ \A j \in 1..(i - 1) : kt[j] = ku[j]

\* t.Add(d), d in ticks
Add(t, d) == Date(t.year, t.month, t.day, t.hour, t.min, t.sec, t.nsec + d)

\* t.AddDate(years, months, days)
AddDate(t, years, months, days) ==
    Date(t.year + years, t.month + months, t.day + days, t.hour, t.min, t.sec, t.nsec)

(***************************************************************************)
(* time.ParseInLocation for the layouts of specs.  A layout is the         *)
(* sequence of its chunks.  The arguments explored hold digits, '-', ':',  *)
(* space and letters, so the fractional seconds that a '.' or ',' after    *)
(* the seconds would start are left out.                                   *)
(***************************************************************************)

\* getnum of package time: one or two digits, exactly two when fixed.
GetNum(s, fixed) ==
    IF ~IsDigitAt(s, 0) THEN [ok |-> FALSE, val |-> 0, rest |-> s]
    ELSE IF ~IsDigitAt(s, 1)
    THEN [ok |-> ~fixed, val |-> DigitVal(s[1]), rest |-> Drop(s, 1)]
    ELSE [ok |-> TRUE, val |-> 10 * DigitVal(s[1]) + DigitVal(s[2]), rest |-> Drop(s, 2)]

ParseFail == [ok |-> FALSE, t |-> NoTime]

RECURSIVE ParseChunks(_, _, _)
ParseChunks(layout, value, acc) ==
    IF layout = <<>>
    THEN IF value # <<>> THEN ParseFail                      \* extra text
         ELSE IF acc.day < 1 \/ acc.day > DaysIn(acc.month, acc.year)
         THEN ParseFail                                      \* day out of range
         ELSE [ok |-> TRUE,
               t |-> Date(acc.year, acc.month, acc.day, acc.hour, acc.min, acc.sec, 0)]
    ELSE LET c == Head(layout)
             rest == Tail(layout)
         IN  CASE c = "2006" ->
                   IF Len(value) >= 4 /\ \A i \in 0..3 : IsDigitAt(value, i)
                   THEN ParseChunks(rest, Drop(value, 4),
                            [acc EXCEPT !.year = ScanDigits(SubSeq(value, 1, 4), 0, 0)[1]])
                   ELSE ParseFail
               [] c = "01" ->
                   LET r == GetNum(value, TRUE)
                   IN  IF r.ok /\ r.val >= 1 /\ r.val <= 12
                       THEN ParseChunks(rest, r.rest, [acc EXCEPT !.month = r.val])
                       ELSE ParseFail
               [] c = "02" ->
                   LET r == GetNum(value, TRUE)
                   IN  IF r.ok
                       THEN ParseChunks(rest, r.rest, [acc EXCEPT !.day = r.val])
                       ELSE ParseFail
               [] c = "15" ->
                   LET r == GetNum(value, FALSE)
                   IN  IF r.ok /\ r.val < 24
                       THEN ParseChunks(rest, r.rest, [acc EXCEPT !.hour = r.val])
                       ELSE ParseFail
               [] c = "04" ->
                   LET r == GetNum(value, TRUE)
                   IN  IF r.ok /\ r.val < 60
                       THEN ParseChunks(rest, r.rest, [acc EXCEPT !.min = r.val])
                       ELSE ParseFail
               [] c = "05" ->
                   LET r == GetNum(value, TRUE)
                   IN  IF r.ok /\ r.val < 60
                       THEN ParseChunks(rest, r.rest, [acc EXCEPT !.sec = r.val])
                       ELSE ParseFail
               [] c = " " ->
                   IF value # <<>> /\ Head(value) # " " THEN ParseFail
                   ELSE ParseChunks(rest, SkipSpace(value), acc)
               [] OTHER ->
                   IF value # <<>> /\ Head(value) = c
                   THEN ParseChunks(rest, Tail(value), acc)
                   ELSE ParseFail

\* time.ParseInLocation(layout, value, time.Local): fields the layout lacks
\* are year 0, January, day 1, midnight.
ParseInLocation(layout, value) == ParseChunks(layout, value, NoTime)

(***************************************************************************)
(* The parser of waituntil.  parseHHMM and parseTime each read time.Now();  *)
(* the two readings are taken to be the same, tnow.                        *)
(***************************************************************************)
full == 0
noyear == 1
nomonth == 2

specs == <<
    [spec |-> <<"2006", "-", "01", "-", "02", " ", "15", ":", "04">>, lacks |-> full],
    [spec |-> <<"2006", "-", "01", "-", "02", " ", "15", ":", "04", ":", "05">>, lacks |-> full],
    [spec |-> <<"2006", "-", "01", "-", "02">>, lacks |-> full],
    [spec |-> <<"01", "-", "02", " ", "15", ":", "04">>, lacks |-> noyear],
    [spec |-> <<"01", "-", "02", " ", "15", ":", "04", ":", "05">>, lacks |-> noyear],
    [spec |-> <<"01", "-", "02">>, lacks |-> noyear],
    [spec |-> <<"02", " ", "15", ":", "04">>, lacks |-> nomonth],
    [spec |-> <<"02", " ", "15", ":", "04", ":", "05">>, lacks |-> nomonth],
    [spec |-> <<"02">>, lacks |-> nomonth] >>

\* "if our target time is right now, we're done": this minute, with the
\* target seconds not after now's.
SameMinuteStrict(tnow, hr, min, secs) ==
    tnow.hour = hr /\ tnow.min = min /\ tnow.sec > secs
SameMinute(tnow, hr, min, secs) ==
    tnow.hour = hr /\ tnow.min = min /\ tnow.sec >= secs

\* "If the target time we've determined is before now, it's actually
\* tomorrow.  Push it forward."
RollForwardReversed(t, tnow) == IF Before(tnow, t) THEN Add(t, 24 * Hour) ELSE t
RollForward(t, tnow) == IF Before(t, tnow) THEN Add(t, 24 * Hour) ELSE t

parseHHMM(text, tnow) ==
    LET r3 == Sscanf(text, <<"%d", ":", "%d", ":", "%d">>, <<>>)
        r2 == Sscanf(text, <<"%d", ":", "%d">>, <<>>)
        hr == IF r3.ok THEN r3.vals[1] ELSE r2.vals[1]
        min == IF r3.ok THEN r3.vals[2] ELSE r2.vals[2]
        secs == IF r3.ok THEN r3.vals[3] ELSE 0
        t == Date(tnow.year, tnow.month, tnow.day, hr, min, secs, 0)
    IN  IF ~r3.ok /\ ~r2.ok THEN [err |-> TRUE, t |-> NoTime]
        ELSE IF SameMinute(tnow, hr, min, secs) THEN [err |-> FALSE, t |-> t]
        ELSE [err |-> FALSE, t |-> RollForward(t, tnow)]

\* The completion of the fields a layout lacks.
Complete(t, lacks, tnow) ==
    LET t1 == IF lacks >= noyear THEN AddDate(t, tnow.year, 0, 0) ELSE t
    IN  IF lacks >= nomonth THEN AddDate(t1, 0, tnow.month - 1, 0) ELSE t1

RECURSIVE parseSpecs(_, _, _)
parseSpecs(i, text, tnow) ==
    IF i > Len(specs) THEN [err |-> TRUE, t |-> NoTime]
    ELSE LET r == ParseInLocation(specs[i].spec, text)
         IN  IF ~r.ok THEN parseSpecs(i + 1, text, tnow)
             ELSE [err |-> FALSE, t |-> Complete(r.t, specs[i].lacks, tnow)]

parseTime(text, tnow) ==
    LET r == parseHHMM(text, tnow)
    IN  IF ~r.err THEN r ELSE parseSpecs(1, text, tnow)

\* main calls parseTime on its arguments.
ParseArgument ==
    /\ pc = "parse"
    /\ LET r == parseTime(tspec, pnow)
       IN  /\ result' = r.t
           /\ perr' = r.err
    /\ pc' = "parsed"
    /\ UNCHANGED <<given, tspec, pnow>>
    /\ UNCHANGED <<clock, tgt, now, dur, remaining, sleeps, jumps, jump>>

(***************************************************************************)
(* The time arguments and the clock readings the parser is explored on.    *)
(***************************************************************************)
Fmt2(n) == <<Digits[((n \div 10) % 10) + 1], Digits[(n % 10) + 1]>>

Fmt4(n) == Fmt2(n \div 100) \o Fmt2(n % 100)

Forms == {"HM", "HMS", "YMD HM", "YMD HMS", "YMD", "MD HM", "MD HMS", "MD",
          "D HM", "D HMS", "D", "H M", "word"}

\* The text of the fields g in the form g.form.
Format(g) ==
    LET ymd == Fmt4(g.year) \o <<"-">> \o Fmt2(g.month) \o <<"-">> \o Fmt2(g.day)
        md == Fmt2(g.month) \o <<"-">> \o Fmt2(g.day)
        d == Fmt2(g.day)
        hm == Fmt2(g.hour) \o <<":">> \o Fmt2(g.min)
        hms == hm \o <<":">> \o Fmt2(g.sec)
    IN  CASE g.form = "HM" -> hm
          [] g.form = "HMS" -> hms
          [] g.form = "YMD HM" -> ymd \o <<" ">> \o hm
          [] g.form = "YMD HMS" -> ymd \o <<" ">> \o hms
          [] g.form = "YMD" -> ymd
          [] g.form = "MD HM" -> md \o <<" ">> \o hm
          [] g.form = "MD HMS" -> md \o <<" ">> \o hms
          [] g.form = "MD" -> md
          [] g.form = "D HM" -> d \o <<" ">> \o hm
          [] g.form = "D HMS" -> d \o <<" ">> \o hms
          [] g.form = "D" -> d
          [] g.form = "H M" -> Fmt2(g.hour) \o <<" ">> \o Fmt2(g.min)
          [] OTHER -> <<"n", "o", "t", "-", "a", "-", "t", "i", "m", "e">>

HasYear(f) == f \in {"YMD HM", "YMD HMS", "YMD"}
HasMonth(f) == HasYear(f) \/ f \in {"MD HM", "MD HMS", "MD"}
HasDay(f) == HasMonth(f) \/ f \in {"D HM", "D HMS", "D"}
HasTime(f) == f \in {"HM", "HMS", "YMD HM", "YMD HMS", "MD HM", "MD HMS", "D HM", "D HMS", "H M"}
HasSec(f) == f \in {"HMS", "YMD HMS", "MD HMS", "D HMS"}

Given ==
    {g \in [form : Forms, year : {0, 2023, 2024}, month : {0, 2, 4, 12},
            day : {0, 1, 25, 29, 31}, hour : {0, 8, 17, 23, 24},
            min : {0, 1, 59, 60}, sec : {0, 33, 59}] :
        /\ (g.year = 0) = ~HasYear(g.form)
        /\ (g.month = 0) = ~HasMonth(g.form)
        /\ (g.day = 0) = ~HasDay(g.form)
        /\ ~HasTime(g.form) => (g.hour = 0 /\ g.min = 0)
        /\ ~HasSec(g.form) => g.sec = 0}

Nows ==
    {[year |-> 2023, month |-> 2, day |-> 15, hour |-> 17, min |-> 1, sec |-> 33, nsec |-> 1],
     [year |-> 2024, month |-> 4, day |-> 30, hour |-> 8, min |-> 0, sec |-> 0, nsec |-> 0],
     [year |-> 2024, month |-> 12, day |-> 31, hour |-> 23, min |-> 59, sec |-> 59, nsec |-> 1]}

InitParse ==
    /\ pc = "parse"
    /\ given \in Given
    /\ tspec = Format(given)
    /\ pnow \in Nows
    /\ result = NoTime
    /\ perr = FALSE
    /\ clock = 0 /\ tgt = 0 /\ now = 0 /\ dur = 0 /\ remaining = 0
    /\ sleeps = 0 /\ jumps = 0 /\ jump = 0

NextParse == ParseArgument

ParseSpec == InitParse /\ [][NextParse]_vars

(***************************************************************************)
(* Claims about the parser.                                                *)
(***************************************************************************)
DayNumber(t) == DaysBeforeYear(t.year) + DaysBeforeMonth(t.year, t.month) + t.day - 1

SecondOfDay(t) == t.hour * 60 * 60 + t.min * 60 + t.sec

\* The seconds from the start of the day of parsing to the result.
ResultOffset == (DayNumber(result) - DayNumber(pnow)) * SecondsPerDay + SecondOfDay(result)

\* The time of day the argument gives, in seconds.
GivenSeconds == given.hour * 60 * 60 + given.min * 60 + given.sec

ClockTimeGiven == pc = "parsed" /\ given.form \in {"HM", "HMS"}

SameMinuteCase ==
    pnow.hour = given.hour /\ pnow.min = given.min /\ pnow.sec >= given.sec

CandidateBeforeNow == GivenSeconds * Second < SecondOfDay(pnow) * Second + pnow.nsec

\* C5: for HH:MM[:SS] with the hour in 0..23, outside the same-minute case,
\* the result is today's date at the given time of day, plus exactly 24 hours
\* when that is strictly before now, and unchanged when it is not.
C5_RollForward ==
    (ClockTimeGiven /\ given.hour \in 0..23 /\ ~SameMinuteCase) =>
        /\ ~perr
        /\ result.nsec = 0
        /\ ResultOffset = GivenSeconds + (IF CandidateBeforeNow THEN SecondsPerDay ELSE 0)

C5_Witness ==
    /\ ClockTimeGiven
    /\ given.hour = 8
    /\ pnow.hour = 23
    /\ result.year = pnow.year + 1
    /\ result.month = 1
    /\ result.day = 1
    /\ result.hour = 8

\* C6: for a clock time in now's hour and minute whose seconds now has
\* reached, the result is today's date at the given time, not tomorrow's,
\* though it is at or before now.
C6_SameMinuteIsNow ==
    (ClockTimeGiven /\ SameMinuteCase) =>
        /\ ~perr
        /\ result = [pnow EXCEPT !.sec = given.sec, !.nsec = 0]
        /\ ~Before(pnow, result)

C6_Witness ==
    /\ ClockTimeGiven
    /\ SameMinuteCase
    /\ given.sec = pnow.sec
    /\ pnow.nsec > 0
    /\ Before(result, pnow)
    /\ result.day = pnow.day

\* C7: for an argument an MM-DD[ HH:MM[:SS]] layout accepts, the result has
\* now's year and the month, day and time of day of the argument; for one a
\* DD[ HH:MM[:SS]] layout accepts, now's year, now's month and the day and
\* time of day of the argument.
C7_Completion ==
    (pc = "parsed" /\ ~perr /\ HasDay(given.form) /\ ~HasYear(given.form)) =>
        /\ result.year = pnow.year
        /\ result.month = (IF HasMonth(given.form) THEN given.month ELSE pnow.month)
        /\ result.day = given.day
        /\ result.hour = given.hour
        /\ result.min = given.min
        /\ result.sec = given.sec

(***************************************************************************)
(* Claims about the wait loop.                                             *)
(***************************************************************************)

C2_Terminates == <>(pc = "done")

C2_Witness == pc = "done" /\ sleeps >= 3 /\ jump > 0 /\ sleeps < MaxSleeps

\* The least k with w <= 2^k * unit.
CeilLog2Ratio(w, unit) == CHOOSE k \in 0..12 :
    /\ w <= (2 ^ k) * unit
    /\ \A i \in 0..(k - 1) : w > (2 ^ i) * unit

\* The number of one-hour sleeps a wait of w starts with.
HourSleeps(w) == IF w > 2 * Hour THEN (w - 2 * Hour + Hour - 1) \div Hour ELSE 0

SleepBound(w) ==
    HourSleeps(w)
        + CeilLog2Ratio(IF w > 2 * Hour THEN 2 * Hour ELSE w, Minute) + 1

\* C3 as stated: under a stable clock the number of sleeps is logarithmic in
\* the initial wait; here, with the constant that holds for every wait of up
\* to two hours: sleeps <= ceil(log2(wait / 1 minute)) + 1.
C3_LogarithmicSleeps ==
    pc = "done" => sleeps <= CeilLog2Ratio(tgt - Origin, Minute) + 1

\* C3 as amended: under a stable clock a wait of w takes at most one sleep
\* per hour of w beyond two hours, plus ceil(log2(min(w, 2h) / 1 minute)) + 1
\* sleeps; a wait of 10 hours takes 16 sleeps (8 of one hour, 7 halvings, 1
\* exact).
C3_HourlyThenLogarithmicSleeps ==
    /\ sleeps <= SleepBound(tgt - Origin)
    /\ (pc = "done" /\ tgt - Origin = 10 * Hour) => sleeps = 16

C3_Witness == pc = "done" /\ tgt - Origin = 10 * Hour /\ sleeps = 16

\* C4: when the clock was set back during a sleep and the new sample is still
\* a second or more before the target, the next iteration finds a larger
\* remaining time and sleeps again, for a positive duration.
C4_BackwardJumpRecovery ==
    [][(pc = "top" /\ sleeps > 0 /\ clock < now /\ Sub(tgt, clock) >= Second)
        => /\ pc' = "sleeping"
           /\ remaining' > remaining
           /\ dur' > 0
           /\ dur' <= remaining']_vars

C4_Witness ==
    /\ pc = "sleeping"
    /\ jump = 0 - 3 * Hour
    /\ sleeps >= 2
    /\ remaining > 3 * Hour

\* C8: an iteration that samples a time at or after the target, or less than
\* a second before it, returns without sleeping; a target already in the past
\* at the first sample takes no sleep at all.
C8_ImmediateCompletion ==
    [][(pc = "top" /\ (clock >= tgt \/ Sub(tgt, clock) < Second))
        => (pc' = "done" /\ sleeps' = sleeps /\ (tgt <= Origin => sleeps' = 0))]_vars

C8_Witness ==
    /\ pc = "done"
    /\ sleeps = 0
    /\ Sub(tgt, now) > 0
    /\ Sub(tgt, now) < Second

\* C9: every sleep is of 1 hour if more than 2 hours remain, of half the
\* remaining time if more than 1 minute and at most 2 hours remain, and of
\* the remaining time otherwise; so 1 second <= dur <= 1 hour and
\* dur <= remaining.
C9_SleepDurationRule ==
    pc = "sleeping" =>
        /\ remaining >= Second
        /\ remaining > 2 * Hour => dur = Hour
        /\ (remaining > Minute /\ remaining <= 2 * Hour) => dur = remaining \div 2
        /\ remaining <= Minute => dur = remaining
        /\ Second <= dur
        /\ dur <= Hour
        /\ dur <= remaining

C9_Witness ==
    /\ pc = "sleeping"
    /\ jumps > 0
    /\ remaining > Minute
    /\ remaining <= 2 * Hour
    /\ dur = remaining \div 2

\* C10: under a stable clock, when the first remaining time is a second or
\* more, no sample is later than the target, the loop returns when the
\* sample equals the target, and the last sleep is the whole remaining time,
\* of at most a minute.
C10_NoOversleep ==
    tgt - Origin >= Second =>
        /\ now <= tgt
        /\ clock <= tgt
        /\ pc = "done" => now = tgt
        /\ (pc = "top" /\ clock = tgt) => (dur = remaining /\ remaining <= Minute)

C10_Witness == pc = "done" /\ now = tgt /\ sleeps >= 10

====
